---- MODULE Spec2Model ----
(***************************************************************************)
(* FogBound: the weather ingestion pipeline.                               *)
(*   src/src/data/fetch_weather.py      WeatherFetcher                     *)
(*   src/src/data/database.py           weather_observations, insert       *)
(*   src/src/data/collector.py          MultiStationCollector              *)
(*   src/src/data/backfill_weathergov.py WeatherGovBackfiller              *)
(*   src/src/data/backfill_multi_station.py backfill_all_stations          *)
(*                                                                         *)
(* Representation.  Python's None is the empty tuple and a present value v *)
(* is the one-element tuple <<v>>.  A decimal quantity is kept in          *)
(* hundredths of its unit (the pipeline rounds every quantity to two       *)
(* decimal places), so 1000 m is H(1000) = 100000.  A timestamp is the     *)
(* number of the instant it names.  The table is the bag of its rows (the  *)
(* generated id and created_at of a row are left out).                     *)
(***************************************************************************)
EXTENDS Integers, Sequences, FiniteSets, Bags, TLC

VARIABLES
    store,        \* table weather_observations: the bag of its rows
    cpc,          \* collector: position in run_continuous / collect_all_stations
    cycle_count,  \* run_continuous: cycle_count
    idx,          \* collect_all_stations: position of station_id in self.stations
    stats,        \* collect_all_stations: stats
    observation,  \* _collect_station: observation
    processed,    \* the stations whose cycle has ended in the current round
    outcomes,     \* the cycles of the current round, counted by how they ended
    fog_alert,    \* the cycle that ended last logged FOG DETECTED
    stopReport,   \* "Total cycles completed" as logged on KeyboardInterrupt
    stoppedInSleep, \* the KeyboardInterrupt arrived in time.sleep
    completed,    \* the rounds that ran to completion (summary logged)
    bpc,          \* backfill: position in backfill_all_stations / backfill
    bidx,         \* backfill_all_stations: position of station_id in STATIONS
    remaining,    \* backfill: features of the response not yet processed
    totals,       \* backfill: total_fetched, total_inserted, total_duplicates, total_errors
    bobservation, \* backfill: observation
    boutcomes,    \* the records of the current backfill, counted by how they ended
    breturn,      \* how the backfill that ended last returned
    battempted,   \* the stations whose backfill backfill_all_stations has started
    bfailed,      \* the backfill of an earlier station failed or raised
    db_up,        \* the database server answers (for the whole run)
    fnIn,         \* argument of the function under check (function specifications)
    fnOut         \* its result

vars == <<store, cpc, cycle_count, idx, stats, observation, processed, outcomes,
          fog_alert, stopReport, stoppedInSleep, completed, bpc, bidx, remaining, totals, bobservation,
          boutcomes, breturn, battempted, bfailed, db_up, fnIn, fnOut>>

collectorVars == <<cpc, cycle_count, idx, stats, observation, processed, outcomes,
                   fog_alert, stopReport, stoppedInSleep, completed>>
backfillVars == <<bpc, bidx, remaining, totals, bobservation, boutcomes, breturn,
                  battempted, bfailed>>

fnVars == <<fnIn, fnOut>>

(***************************************************************************)
(* Bounds of the model.                                                    *)
(***************************************************************************)
NStations == 2      \* stations of the list that the model runs
MaxTime == 2        \* distinct observation instants
MaxRounds == 2      \* rounds of run_continuous
MaxFeatures == 2    \* records in one historic response
MaxDegrees == 360   \* provider wind direction, whole degrees 0..MaxDegrees
Margin == 1         \* hundredths checked on either side of a validation bound
MaxLimit == 2       \* limit of get_recent_observations, 0..MaxLimit

(***************************************************************************)
(* Program constants.                                                      *)
(***************************************************************************)
Scale == 100            \* round(x, 2): two decimal places
FogVisibilityM == 1000
TempMinC == -50
TempMaxC == 50
HumidityMin == 0
HumidityMax == 100
VisibilityMin == 0
BucketDegrees == 45
NDirections == 8
PaPerHpa == 100         \* pressure_pa / 100
KmhPerMsTenths == 36    \* ms * 3.6, in tenths

H(x) == x * Scale

None == <<>>
Some(v) == <<v>>
Val(x) == x[1]

\* Python truthiness of an optional number / string / object.
TruthyNum(x) == x # None /\ Val(x) # 0
TruthyStr(x) == x # None /\ Val(x) # ""
TruthyObj(x) == x # None

\* Python 3 round(n / d) for d > 0: to the nearest integer, ties to even.
RoundHalfEven(n, d) ==
    LET q == n \div d
        r == n % d
    IN  IF 2 * r < d THEN q
        ELSE IF 2 * r > d THEN q + 1
        ELSE IF q % 2 = 0 THEN q ELSE q + 1

AllStations == <<"KPNE", "KLOM", "KDYL", "KTTN", "KCKZ", "KPHL", "KVAY", "KUKT", "KPTW", "KWRI">>
Stations == SubSeq(AllStations, 1, NStations)

directions == <<"N", "NE", "E", "SE", "S", "SW", "W", "NW">>

(***************************************************************************)
(* WeatherFetcher: normalisation and validation (pure functions).          *)
(*                                                                         *)
(* A provider payload is its properties bag: timestamp, which is None when *)
(* the key is missing, <<None>> when it is null or no ISO-8601 text, and   *)
(* <<<<t>>>> when it names the instant t; station (the station URL split   *)
(* at '/', <<>> for the empty string or a missing key); and one field per  *)
(* measured quantity.  A quantity field is None (key missing) or           *)
(* <<value>>, where value is None (null) or <<hundredths>>.                *)
(***************************************************************************)
StationUrl(s) == <<"https:", "", "api.weather.gov", "stations", s>>

\* round(float(value), 2) of a value the provider gives with at most two
\* decimal places: the same number of hundredths.
ExtractValueZero(field) ==
    IF field = None THEN Some(0)
    ELSE LET value == Val(field)
         IN  IF value = None THEN Some(0) ELSE Some(Val(value))

ExtractValue(field) ==
    IF field = None THEN None
    ELSE LET value == Val(field)
         IN  IF value = None THEN None ELSE Some(Val(value))

\* _degrees_to_cardinal(degrees), degrees in hundredths of a degree.
DegreesToCardinal(degrees) ==
    IF degrees = None THEN None
    ELSE LET index == RoundHalfEven(Val(degrees), H(BucketDegrees)) % NDirections
         IN  Some(directions[index + 1])

\* dewpoint_spread_c: round(temp_c - dewpoint_c, 2) when both are present.
DewpointSpread(temp_c, dewpoint_c) ==
    IF temp_c # None /\ dewpoint_c # None THEN Some(Val(temp_c) - Val(dewpoint_c))
    ELSE None

PaToHpaUnconverted(pressure_pa) == pressure_pa

\* barometric_pressure: round(pressure_pa / 100, 2), pascals to hectopascals.
\* (Exact arithmetic: a binary float may tip an exact tie the other way.)
PaToHpa(pressure_pa) ==
    IF pressure_pa # None THEN Some(RoundHalfEven(Val(pressure_pa), PaPerHpa)) ELSE None

\* wind_speed_kmh, wind_gust_kmh: round(ms * 3.6, 2), m/s to km/h.
MsToKmh(ms) ==
    IF ms # None THEN Some(RoundHalfEven(Val(ms) * KmhPerMsTenths, 10)) ELSE None

\* wind_direction as _parse_observation computes it from the extracted degrees.
WindDirection(wind_direction_deg) ==
    IF TruthyNum(wind_direction_deg) THEN DegreesToCardinal(wind_direction_deg) ELSE None

\* _parse_observation raises: timestamp_str is None and has no replace(), or
\* datetime.fromisoformat rejects the text.
ParseRaises(properties) ==
    properties.timestamp = None \/ Val(properties.timestamp) = None

\* _parse_observation(api_response) of a fetcher for station self_station_id.
ParseObservation(properties, self_station_id) ==
    LET station == properties.station
    IN  [observed_at |-> Val(properties.timestamp),
         station_id |-> IF station # <<>> THEN Some(station[Len(station)])
                        ELSE Some(self_station_id),
         temperature_c |-> ExtractValue(properties.temperature),
         dewpoint_c |-> ExtractValue(properties.dewpoint),
         dewpoint_spread_c |-> DewpointSpread(ExtractValue(properties.temperature),
                                              ExtractValue(properties.dewpoint)),
         relative_humidity |-> ExtractValue(properties.relativeHumidity),
         barometric_pressure |-> PaToHpa(ExtractValue(properties.barometricPressure)),
         visibility_m |-> ExtractValue(properties.visibility),
         wind_speed_kmh |-> MsToKmh(ExtractValue(properties.windSpeed)),
         wind_direction |-> WindDirection(ExtractValue(properties.windDirection)),
         wind_gust_kmh |-> MsToKmh(ExtractValue(properties.windGust))]

validate_accepts_all(obs) == TRUE

validate_required_only(obs) == TruthyObj(obs.observed_at) /\ TruthyStr(obs.station_id)

validate_exclusive_bounds(obs) ==
    IF ~TruthyObj(obs.observed_at) THEN FALSE
    ELSE IF ~TruthyStr(obs.station_id) THEN FALSE
    ELSE IF obs.temperature_c # None
            /\ (Val(obs.temperature_c) <= H(TempMinC) \/ Val(obs.temperature_c) >= H(TempMaxC))
         THEN FALSE
    ELSE IF obs.relative_humidity # None
            /\ (Val(obs.relative_humidity) <= H(HumidityMin)
                \/ Val(obs.relative_humidity) >= H(HumidityMax))
         THEN FALSE
    ELSE IF obs.visibility_m # None /\ Val(obs.visibility_m) <= H(VisibilityMin)
         THEN FALSE
    ELSE TRUE

\* validate_observation(observation).
validate_observation(obs) ==
    IF ~TruthyObj(obs.observed_at) THEN FALSE
    ELSE IF ~TruthyStr(obs.station_id) THEN FALSE
    ELSE IF obs.temperature_c # None
            /\ (Val(obs.temperature_c) < H(TempMinC) \/ Val(obs.temperature_c) > H(TempMaxC))
         THEN FALSE
    ELSE IF obs.relative_humidity # None
            /\ (Val(obs.relative_humidity) < H(HumidityMin)
                \/ Val(obs.relative_humidity) > H(HumidityMax))
         THEN FALSE
    ELSE IF obs.visibility_m # None /\ Val(obs.visibility_m) < H(VisibilityMin)
         THEN FALSE
    ELSE TRUE

\* The fog check of the collector and of the backfill:
\* visibility and visibility < 1000.
FogDetected(obs) ==
    TruthyNum(obs.visibility_m) /\ Val(obs.visibility_m) < H(FogVisibilityM)

(***************************************************************************)
(* The store: table weather_observations and insert_observation.           *)
(* An exception is the set of phrases its lower-cased text contains.       *)
(***************************************************************************)
NoError == {}
UniqueViolation == {"duplicate key value", "uix_station_time"}
OperationalError == {"could not connect to server"}

KeyOf(row) == <<row.station_id, row.observed_at>>

\* The rows of the table with the key of obs.
RowsWithKey(st, key) == {r \in BagToSet(st) : KeyOf(r) = key}

NoUniqueConstraint(st, obs) == FALSE

\* UniqueConstraint('station_id', 'observed_at', name='uix_station_time'):
\* the table already holds a row with the key of obs.
UniqueConflict(st, obs) == RowsWithKey(st, KeyOf(obs)) # {}

\* What insert_observation raises.  fault: where the store fails for a reason
\* other than the constraint (connectivity, schema): "commit", in
\* session.commit(); "refresh", in session.refresh() after the commit went
\* through; "none".
insert_error(st, obs, fault) ==
    IF fault = "commit" THEN OperationalError
    ELSE IF UniqueConflict(st, obs) THEN UniqueViolation
    ELSE IF fault = "refresh" THEN OperationalError
    ELSE NoError

\* The table after insert_observation: the row is added when the commit goes
\* through; a failed commit is rolled back, and the rollback after a failed
\* refresh finds nothing to undo.
insert_keeps_latest(st, obs, fault) ==
    IF fault # "commit" /\ ~UniqueConflict(st, obs)
    THEN SetToBag({r \in BagToSet(st) : r.station_id # obs.station_id} \cup {obs})
    ELSE st

insert_observation(st, obs, fault) ==
    IF fault # "commit" /\ ~UniqueConflict(st, obs) THEN st (+) SetToBag({obs}) ELSE st

\* The faults an access to the store may meet: any when the server answers,
\* always one when it does not.
StoreFaults == IF db_up THEN {"none", "commit", "refresh"} ELSE {"commit"}

\* The rows of a station, ordered by observed_at descending / ascending.
RECURSIVE NewestFirst(_)
NewestFirst(rows) ==
    IF rows = {} THEN <<>>
    ELSE LET r == CHOOSE x \in rows :
                      \A y \in rows : Val(y.observed_at) <= Val(x.observed_at)
         IN  <<r>> \o NewestFirst(rows \ {r})

RECURSIVE OldestFirst(_)
OldestFirst(rows) ==
    IF rows = {} THEN <<>>
    ELSE LET r == CHOOSE x \in rows :
                      \A y \in rows : Val(y.observed_at) >= Val(x.observed_at)
         IN  <<r>> \o OldestFirst(rows \ {r})

FirstRows(seq, limit) == SubSeq(seq, 1, IF limit < Len(seq) THEN limit ELSE Len(seq))

get_oldest_observations(st, station_id, limit) ==
    FirstRows(OldestFirst({r \in BagToSet(st) : r.station_id = Some(station_id)}), limit)

\* get_recent_observations(station_id, limit): filter by station_id, order by
\* observed_at descending, limit.
get_recent_observations(st, station_id, limit) ==
    FirstRows(NewestFirst({r \in BagToSet(st) : r.station_id = Some(station_id)}), limit)

NeverDuplicateError(e) == FALSE

AlwaysDuplicateError(e) == TRUE

\* 'duplicate key value' in str(e).lower() or 'uix_station_time' in str(e).lower()
IsDuplicateError(e) == "duplicate key value" \in e \/ "uix_station_time" \in e

(***************************************************************************)
(* What the provider may answer.                                           *)
(***************************************************************************)
\* What requests.get, raise_for_status and response.json() may do: answer, or
\* fail with a connection error, a timeout, a non-2xx status, a body that is
\* no JSON.
HttpOutcomes == {"ok", "connection_error", "timeout", "http_error", "bad_json"}

Times == 1..MaxTime

\* The place of station s in the station list.
StationIndex(s) == CHOOSE i \in 1..Len(AllStations) : AllStations[i] = s

\* The provider has one reading per station and instant, and delivers the
\* same reading whenever it delivers that observation again.  The readings
\* of the system runs go through: just below the fog threshold, at it, zero,
\* negative (invalid).
VisibilityReadings == <<H(FogVisibilityM) - 1, H(FogVisibilityM), 0, -1>>

\* The number of the reading of station s at instant t.
ReadingNumber(s, t) == (StationIndex(s) - 1) * MaxTime + (t - 1)

ProviderVisibility(s, t) ==
    VisibilityReadings[(ReadingNumber(s, t) % Len(VisibilityReadings)) + 1]

\* Temperature and humidity fields of the readings: at the bounds of the
\* validation, missing, and (from the fifth reading on) just outside them.
TemperatureReadings ==
    <<Some(Some(H(TempMaxC))), None, Some(Some(H(TempMinC))), None,
      Some(Some(H(TempMaxC) + 1)), None, Some(None), Some(Some(H(TempMinC) - 1))>>

HumidityReadings ==
    <<Some(Some(H(HumidityMax))), Some(Some(H(HumidityMin))), None, None,
      Some(None), Some(Some(H(HumidityMax) + 1)), Some(Some(H(HumidityMin) - 1)), None>>

ProviderTemperature(s, t) ==
    TemperatureReadings[(ReadingNumber(s, t) % Len(TemperatureReadings)) + 1]

ProviderHumidity(s, t) ==
    HumidityReadings[(ReadingNumber(s, t) % Len(HumidityReadings)) + 1]

Reading(s, timestamp) ==
    [timestamp |-> timestamp,
     station |-> StationUrl(s),
     temperature |-> IF timestamp = None \/ Val(timestamp) = None THEN None
                     ELSE ProviderTemperature(s, Val(Val(timestamp))),
     dewpoint |-> None,
     relativeHumidity |-> IF timestamp = None \/ Val(timestamp) = None THEN None
                          ELSE ProviderHumidity(s, Val(Val(timestamp))),
     barometricPressure |-> None,
     visibility |-> IF timestamp = None \/ Val(timestamp) = None THEN None
                    ELSE Some(Some(ProviderVisibility(s, Val(Val(timestamp))))),
     windSpeed |-> None,
     windDirection |-> None,
     windGust |-> None]

\* The properties bags the provider may deliver for station s.
Payloads(s) ==
    {Reading(s, ts) : ts \in {None, Some(None)} \cup {Some(Some(t)) : t \in Times}}

\* The answers to GET .../observations/latest: a status and, with "ok", the
\* properties bag of the body.
NoProperties ==
    [timestamp |-> None, station |-> <<>>, temperature |-> None, dewpoint |-> None,
     relativeHumidity |-> None, barometricPressure |-> None, visibility |-> None,
     windSpeed |-> None, windDirection |-> None, windGust |-> None]

LatestResponses(s) ==
    {<<"ok", p>> : p \in Payloads(s)}
        \cup {<<status, NoProperties>> : status \in HttpOutcomes \ {"ok"}}

\* The class of the exception raised inside the try block of
\* fetch_latest_observation, "none" when the block runs to its return.
FetchException(status, properties) ==
    IF status \in {"connection_error", "timeout", "http_error"} THEN "RequestException"
    ELSE IF status = "bad_json" THEN "Exception"
    ELSE IF ParseRaises(properties) THEN "Exception"
    ELSE "none"

FetchHandlesRequestOnly(e) == e = "RequestException"

\* The handlers of fetch_latest_observation: except RequestException, then
\* except Exception (which RequestException is a subclass of).
FetchHandles(e) == e = "RequestException" \/ e \in {"RequestException", "Exception"}

\* An exception escapes fetch_latest_observation to its caller.
fetch_raises(status, properties) ==
    LET e == FetchException(status, properties)
    IN  e # "none" /\ ~FetchHandles(e)

\* What fetch_latest_observation() of the fetcher of station s returns.
fetch_latest_observation(status, properties, s) ==
    IF FetchException(status, properties) # "none" THEN None
    ELSE Some(ParseObservation(properties, s))

(***************************************************************************)
(* Scheduling.  The collector and the backfill are two processes on one    *)
(* store.  The model runs a backfill of a station while the collector is   *)
(* between rounds (before its first round, in the sleep of run_continuous, *)
(* after it stopped), and starts a round while no backfill of a station is *)
(* in progress: rounds and station backfills follow each other in any      *)
(* order.                                                                  *)
(***************************************************************************)
CollectorIdle == cpc \in {"loop", "sleep", "stopped"}
BackfillIdle == bpc \in {"idle", "done"}

(***************************************************************************)
(* MultiStationCollector.                                                  *)
(***************************************************************************)
ZeroStats == [successful |-> 0, duplicates |-> 0, failed |-> 0]

ZeroOutcomes ==
    [no_observation |-> 0, invalid |-> 0, inserted |-> 0, duplicate |-> 0,
     persist_error |-> 0, raised |-> 0]

CountDropsRaised(st, result) ==
    IF result = "True" THEN [st EXCEPT !.successful = @ + 1]
    ELSE IF result = "False" THEN [st EXCEPT !.failed = @ + 1]
    ELSE st

\* collect_all_stations: the tally of one station; result is what
\* _collect_station returned ("True", "False") or "raised".
Count(st, result) ==
    IF result = "True" THEN [st EXCEPT !.successful = @ + 1]
    ELSE [st EXCEPT !.failed = @ + 1]

AfterStationUnwind(i, result) ==
    IF result = "raised" THEN "crashed"
    ELSE IF i < Len(Stations) THEN "fetch" ELSE "summary"

AfterStationRetry(i, result) ==
    IF i < Len(Stations) \/ result # "True" THEN "fetch" ELSE "summary"

AfterStationAbort(i, result) ==
    IF i < Len(Stations) /\ result # "raised" THEN "fetch" ELSE "summary"

\* collect_all_stations: after the tally and the pause the for loop goes on to
\* the next station whatever the result, and returns stats after the last.
AfterStation(i, result) == IF i < Len(Stations) THEN "fetch" ELSE "summary"

\* The end of one iteration of the for loop; how names how the cycle ended.
EndCycle(result, how, fog) ==
    /\ stats' = Count(stats, result)
    /\ processed' = Append(processed, Stations[idx])
    /\ outcomes' = [outcomes EXCEPT ![how] = @ + 1]
    /\ fog_alert' = fog
    /\ cpc' = AfterStation(idx, result)
    /\ idx' = IF idx < Len(Stations) THEN idx + 1 ELSE idx
    /\ observation' = None

\* run_continuous: the top of the while loop up to the call of
\* collect_all_stations, whose stats start at zero.
StartRound ==
    /\ cpc = "loop"
    /\ cycle_count < MaxRounds
    /\ BackfillIdle
    /\ cycle_count' = cycle_count + 1
    /\ stats' = ZeroStats
    /\ processed' = <<>>
    /\ outcomes' = ZeroOutcomes
    /\ fog_alert' = FALSE
    /\ idx' = 1
    /\ cpc' = "fetch"
    /\ UNCHANGED <<store, observation, stopReport, stoppedInSleep, completed, backfillVars, db_up, fnVars>>

\* _collect_station up to the validation, given what the provider answers.
FetchStep(response) ==
    LET obs == fetch_latest_observation(response[1], response[2], Stations[idx])
    IN  IF fetch_raises(response[1], response[2])
        THEN EndCycle("raised", "raised", FALSE)
        ELSE IF obs = None
        THEN EndCycle("False", "no_observation", FALSE)
        ELSE /\ observation' = obs
             /\ cpc' = "validate"
             /\ UNCHANGED <<idx, stats, processed, outcomes, fog_alert>>

\* _collect_station: fetch; no observation ends the cycle with False.
CollectFetch ==
    /\ cpc = "fetch"
    /\ \E response \in LatestResponses(Stations[idx]) : FetchStep(response)
    /\ UNCHANGED <<store, cycle_count, stopReport, stoppedInSleep, completed, backfillVars, db_up, fnVars>>

\* An exception escapes _collect_station (none of its own handlers covers the
\* fetch and the validation); collect_all_stations catches and counts it.
CollectRaise ==
    /\ cpc \in {"fetch", "validate"}
    /\ EndCycle("raised", "raised", FALSE)
    /\ UNCHANGED <<store, cycle_count, stopReport, stoppedInSleep, completed, backfillVars, db_up, fnVars>>

\* _collect_station: validation; a rejected observation ends the cycle with False.
CollectValidate ==
    /\ cpc = "validate"
    /\ IF validate_observation(Val(observation))
       THEN /\ cpc' = "persist"
            /\ UNCHANGED <<idx, stats, processed, outcomes, fog_alert, observation>>
       ELSE EndCycle("False", "invalid", FALSE)
    /\ UNCHANGED <<store, cycle_count, stopReport, stoppedInSleep, completed, backfillVars, db_up, fnVars>>

\* How a persist step ended, by what the store raised.
PersistOutcome(e) ==
    IF e = NoError THEN "inserted"
    ELSE IF e = UniqueViolation THEN "duplicate"
    ELSE "persist_error"

\* _collect_station: the try block around insert_observation and its handler.
CollectPersist ==
    /\ cpc = "persist"
    /\ \E fault \in StoreFaults :
         LET obs == Val(observation)
             e == insert_error(store, obs, fault)
         IN  /\ store' = insert_observation(store, obs, fault)
             /\ IF e = NoError
                THEN EndCycle("True", PersistOutcome(e), FogDetected(obs))
                ELSE IF IsDuplicateError(e)
                THEN EndCycle("True", PersistOutcome(e), FALSE)
                ELSE EndCycle("False", PersistOutcome(e), FALSE)
    /\ UNCHANGED <<cycle_count, stopReport, stoppedInSleep, completed, backfillVars, db_up, fnVars>>

\* run_continuous: the summary of the round is logged, then time.sleep(interval).
\* stats is not read again: the next round starts from new stats.
RoundSummary ==
    /\ cpc = "summary"
    /\ cpc' = "sleep"
    /\ completed' = completed + 1
    /\ stats' = ZeroStats
    /\ processed' = <<>>
    /\ outcomes' = ZeroOutcomes
    /\ fog_alert' = FALSE
    /\ idx' = 1
    /\ UNCHANGED <<store, cycle_count, observation, stopReport, stoppedInSleep,
                   backfillVars, db_up, fnVars>>

\* run_continuous: the sleep ends and the while loop starts over.
SleepDone ==
    /\ cpc = "sleep"
    /\ cpc' = "loop"
    /\ UNCHANGED <<store, cycle_count, idx, stats, observation, processed, outcomes,
                   fog_alert, stopReport, stoppedInSleep, completed, backfillVars, db_up, fnVars>>

\* KeyboardInterrupt: no except Exception catches it; it unwinds the cycle
\* and the round in progress (their locals are gone), and run_continuous logs
\* "Total cycles completed" and returns.
InterruptIgnoredInSleep(pos) == IF pos = "sleep" THEN "loop" ELSE "stopped"

\* Where KeyboardInterrupt takes run_continuous from any position of its try
\* block: to its handler, after which the function returns.
AfterInterrupt(pos) == "stopped"

Interrupt ==
    /\ cpc \in {"loop", "fetch", "validate", "persist", "summary", "sleep"}
    /\ cpc' = AfterInterrupt(cpc)
    /\ stopReport' = Some(cycle_count)
    /\ stoppedInSleep' = (cpc = "sleep")
    /\ stats' = ZeroStats
    /\ processed' = <<>>
    /\ outcomes' = ZeroOutcomes
    /\ fog_alert' = FALSE
    /\ observation' = None
    /\ idx' = 1
    /\ UNCHANGED <<store, cycle_count, completed, backfillVars, db_up, fnVars>>

(***************************************************************************)
(* WeatherGovBackfiller.backfill, run per station by backfill_all_stations.*)
(*                                                                         *)
(* The records of a response are drawn one by one as the loop reaches      *)
(* them; what backfill reads of them before the loop (the length of the    *)
(* list, the timestamp keys of its first and last record) is drawn with    *)
(* the response.                                                           *)
(***************************************************************************)
ZeroTotals == [fetched |-> 0, inserted |-> 0, duplicates |-> 0, errors |-> 0]

\* written: the rows the backfill has added to the table.
ZeroRecords ==
    [inserted |-> 0, duplicate |-> 0, persist_error |-> 0, dropped |-> 0, written |-> 0]

\* The payloads the record at position pos of n may be: the date range line
\* has read ['properties']['timestamp'] of the first and the last.
FeaturePayloads(s, pos, n) ==
    {p \in Payloads(s) : pos \in {1, n} => p.timestamp # None}

\* backfill returns before the summary (the return of the outer handler, or
\* of the empty response); backfill_all_stations goes on.
BackfillReturns(why) ==
    /\ bpc' = "returned"
    /\ breturn' = why

NoDataRaises == "raised"

\* backfill on an empty response: logs a warning and returns.
NoDataExit == "returned"

\* backfill: the request, the length of the list and the date range.
BackfillFetch ==
    /\ bpc = "idle"
    /\ CollectorIdle
    /\ battempted' = Append(battempted, Stations[bidx])
    /\ \E status \in HttpOutcomes, n \in 0..MaxFeatures, keyError \in BOOLEAN :
         IF status # "ok"
         THEN /\ BackfillReturns("request_failed")
              /\ UNCHANGED <<remaining, totals, boutcomes>>
         ELSE IF n = 0
         THEN /\ bpc' = NoDataExit
              /\ breturn' = "no_data"
              /\ totals' = ZeroTotals
              /\ UNCHANGED <<remaining, boutcomes>>
         ELSE IF keyError
         THEN /\ BackfillReturns("date_range_error")
              /\ totals' = [ZeroTotals EXCEPT !.fetched = n]
              /\ UNCHANGED <<remaining, boutcomes>>
         ELSE /\ bpc' = "record"
              /\ remaining' = n
              /\ totals' = [ZeroTotals EXCEPT !.fetched = n]
              /\ boutcomes' = ZeroRecords
              /\ UNCHANGED breturn
    /\ UNCHANGED <<store, bidx, bobservation, bfailed, collectorVars, db_up, fnVars>>

\* The for loop of backfill after a record: the next record, or the summary.
EndRecord(counter, how, wrote) ==
    /\ totals' = [totals EXCEPT ![counter] = @ + 1]
    /\ boutcomes' = [boutcomes EXCEPT ![how] = @ + 1,
                                      !.written = IF wrote THEN @ + 1 ELSE @]
    /\ remaining' = remaining - 1
    /\ bobservation' = None
    /\ bpc' = IF remaining > 1 THEN "record" ELSE "summary"

\* backfill: _parse_observation and validate_observation of the next record.
BackfillParse ==
    /\ bpc = "record"
    /\ remaining > 0
    /\ \E p \in FeaturePayloads(Stations[bidx], totals.fetched - remaining + 1,
                                totals.fetched) :
         IF ParseRaises(p) THEN EndRecord("errors", "dropped", FALSE)
         ELSE LET obs == ParseObservation(p, Stations[bidx])
              IN  IF ~validate_observation(obs) THEN EndRecord("errors", "dropped", FALSE)
                  ELSE /\ bobservation' = Some(obs)
                       /\ bpc' = "insert"
                       /\ UNCHANGED <<remaining, totals, boutcomes>>
    /\ UNCHANGED <<store, bidx, breturn, battempted, bfailed, collectorVars, db_up, fnVars>>

\* backfill: insert_observation of the record and the handler of the loop.
BackfillInsert ==
    /\ bpc = "insert"
    /\ \E fault \in StoreFaults :
         LET obs == Val(bobservation)
             e == insert_error(store, obs, fault)
             wrote == insert_observation(store, obs, fault) # store
         IN  /\ store' = insert_observation(store, obs, fault)
             /\ IF e = NoError THEN EndRecord("inserted", PersistOutcome(e), wrote)
                ELSE IF IsDuplicateError(e)
                THEN EndRecord("duplicates", PersistOutcome(e), wrote)
                ELSE EndRecord("errors", PersistOutcome(e), wrote)
    /\ UNCHANGED <<bidx, breturn, battempted, bfailed, collectorVars, db_up, fnVars>>

\* backfill: the summary and _show_db_stats, whose queries raise when the
\* store fails; nothing in backfill catches that.
BackfillSummary ==
    /\ bpc = "summary"
    /\ \E fault \in StoreFaults :
         /\ bpc' = IF fault # "none" THEN "raised" ELSE "returned"
         /\ breturn' = IF fault # "none" THEN "stats_error" ELSE "complete"
    /\ UNCHANGED <<store, bidx, remaining, totals, bobservation, boutcomes,
                   battempted, bfailed, collectorVars, db_up, fnVars>>

AfterBackfillAbort(i, how) ==
    IF i < Len(Stations) /\ how # "raised" THEN "idle" ELSE "done"

\* backfill_all_stations: the for loop goes on to the next station whether
\* backfill returned or raised, and ends after the last.
AfterBackfill(i, how) == IF i < Len(Stations) THEN "idle" ELSE "done"

\* backfill_all_stations: the end of one iteration of its loop.
BackfillNextStation ==
    /\ bpc \in {"returned", "raised"}
    /\ bpc' = AfterBackfill(bidx, bpc)
    /\ bidx' = IF bidx < Len(Stations) THEN bidx + 1 ELSE bidx
    /\ bfailed' = (bfailed \/ breturn \in {"request_failed", "date_range_error", "stats_error"})
    /\ totals' = ZeroTotals
    /\ boutcomes' = ZeroRecords
    /\ remaining' = 0
    /\ breturn' = "none"
    /\ UNCHANGED <<store, bobservation, battempted, collectorVars, db_up, fnVars>>

(***************************************************************************)
(* The read side: get_recent_observations, as check_data.py and            *)
(* test_database.py call it.  The model makes the query once, when the     *)
(* collector has stopped and the backfill is done.                         *)
(***************************************************************************)
RecentQuery ==
    /\ cpc = "stopped"
    /\ bpc = "done"
    /\ fnOut = None
    /\ \E i \in 1..Len(Stations), limit \in 0..MaxLimit, fault \in StoreFaults :
         /\ fnIn' = <<Stations[i], limit>>
         /\ fnOut' = Some([raised |-> fault # "none",
                           rows |-> IF fault # "none" THEN <<>>
                                    ELSE get_recent_observations(store, Stations[i], limit)])
    /\ UNCHANGED <<store, collectorVars, backfillVars, db_up>>

(***************************************************************************)
(* The system: the collector and the backfill against one store.           *)
(***************************************************************************)
Init ==
    /\ store = EmptyBag
    /\ cpc = "loop"
    /\ cycle_count = 0
    /\ idx = 1
    /\ stats = ZeroStats
    /\ observation = None
    /\ processed = <<>>
    /\ outcomes = ZeroOutcomes
    /\ fog_alert = FALSE
    /\ stopReport = None
    /\ stoppedInSleep = FALSE
    /\ completed = 0
    /\ bpc = "idle"
    /\ bidx = 1
    /\ remaining = 0
    /\ totals = ZeroTotals
    /\ bobservation = None
    /\ boutcomes = ZeroRecords
    /\ breturn = "none"
    /\ battempted = <<>>
    /\ bfailed = FALSE
    /\ db_up \in BOOLEAN
    /\ fnIn = None
    /\ fnOut = None

Next ==
    \/ StartRound
    \/ CollectFetch
    \/ CollectRaise
    \/ CollectValidate
    \/ CollectPersist
    \/ RoundSummary
    \/ SleepDone
    \/ Interrupt
    \/ BackfillFetch
    \/ BackfillParse
    \/ BackfillInsert
    \/ BackfillSummary
    \/ BackfillNextStation
    \/ RecentQuery

Spec == Init /\ [][Next]_vars

(***************************************************************************)
(* validate_observation and the fog check applied to one observation, over *)
(* the values on either side of every bound they test.                     *)
(***************************************************************************)
Around(x) == (x - Margin)..(x + Margin)

Optional(S) == {None} \cup {Some(v) : v \in S}

Observations ==
    [observed_at : Optional({1}),
     station_id : Optional({"", "KPNE"}),
     temperature_c : Optional(Around(H(TempMinC)) \cup {0} \cup Around(H(TempMaxC))),
     relative_humidity : Optional(Around(H(HumidityMin)) \cup Around(H(HumidityMax))),
     visibility_m : Optional(Around(H(VisibilityMin)) \cup Around(H(FogVisibilityM))),
     wind_direction : {None}]

SystemIdle ==
    /\ store = EmptyBag
    /\ cpc = "stopped"
    /\ cycle_count = 0
    /\ idx = 1
    /\ stats = ZeroStats
    /\ observation = None
    /\ processed = <<>>
    /\ outcomes = ZeroOutcomes
    /\ fog_alert = FALSE
    /\ stopReport = None
    /\ stoppedInSleep = FALSE
    /\ completed = 0
    /\ bpc = "done"
    /\ bidx = 1
    /\ remaining = 0
    /\ totals = ZeroTotals
    /\ bobservation = None
    /\ boutcomes = ZeroRecords
    /\ breturn = "none"
    /\ battempted = <<>>
    /\ bfailed = FALSE
    /\ db_up = TRUE

InitObs ==
    /\ SystemIdle
    /\ fnIn \in Observations
    /\ fnOut = None

\* validate_observation(fnIn)
ObsValidate ==
    /\ fnOut = None
    /\ fnOut' = Some([op |-> "validate", result |-> validate_observation(fnIn)])
    /\ UNCHANGED <<store, collectorVars, backfillVars, db_up, fnIn>>

\* the fog check on fnIn
ObsFogCheck ==
    /\ fnOut = None
    /\ fnOut' = Some([op |-> "fog", result |-> FogDetected(fnIn)])
    /\ UNCHANGED <<store, collectorVars, backfillVars, db_up, fnIn>>

NextObs == ObsValidate \/ ObsFogCheck

SpecObs == InitObs /\ [][NextObs]_vars

(***************************************************************************)
(* The wind direction of _parse_observation over the provider's whole      *)
(* degrees.                                                                *)
(***************************************************************************)
InitWind ==
    /\ SystemIdle
    /\ fnIn \in 0..MaxDegrees
    /\ fnOut = None

\* wind_direction of a payload whose windDirection value is fnIn degrees.
WindParse ==
    /\ fnOut = None
    /\ fnOut' = Some(WindDirection(ExtractValue(Some(Some(H(fnIn))))))
    /\ UNCHANGED <<store, collectorVars, backfillVars, db_up, fnIn>>

NextWind == WindParse

SpecWind == InitWind /\ [][NextWind]_vars

(***************************************************************************)
(* One round of the collector on a payload with every measured quantity.   *)
(* The payload of the scenario has no station URL, so each fetcher files   *)
(* it under its own station.                                               *)
(***************************************************************************)
ScenarioPayload ==
    [timestamp |-> Some(Some(1)),
     station |-> <<>>,
     temperature |-> Some(Some(H(10))),
     dewpoint |-> Some(Some(H(8))),
     relativeHumidity |-> None,
     barometricPressure |-> Some(Some(H(101325))),
     visibility |-> Some(Some(H(500))),
     windSpeed |-> Some(Some(H(5))),
     windDirection |-> Some(Some(H(90))),
     windGust |-> None]

\* The scenario and its neighbours: a quantity null, the visibility at the
\* fog threshold, a pressure and a wind speed that round, a wind of 0 degrees.
ScenarioPayloads ==
    [timestamp : {Some(Some(1))},
     station : {<<>>},
     temperature : {Some(Some(H(10))), Some(None)},
     dewpoint : {Some(Some(H(8))), Some(None)},
     relativeHumidity : {None},
     barometricPressure : {Some(Some(H(101325))), Some(Some(H(101325) + 50))},
     visibility : {Some(Some(H(500))), Some(Some(H(FogVisibilityM)))},
     windSpeed : {Some(Some(H(5))), Some(Some(H(5) + 1))},
     windDirection : {Some(Some(H(90))), Some(Some(0))},
     windGust : {None}]

InitScenario ==
    /\ store = EmptyBag
    /\ cpc = "fetch"
    /\ cycle_count = 1
    /\ idx = 1
    /\ stats = ZeroStats
    /\ observation = None
    /\ processed = <<>>
    /\ outcomes = ZeroOutcomes
    /\ fog_alert = FALSE
    /\ stopReport = None
    /\ stoppedInSleep = FALSE
    /\ completed = 0
    /\ bpc = "done"
    /\ bidx = 1
    /\ remaining = 0
    /\ totals = ZeroTotals
    /\ bobservation = None
    /\ boutcomes = ZeroRecords
    /\ breturn = "none"
    /\ battempted = <<>>
    /\ bfailed = FALSE
    /\ db_up = TRUE
    /\ fnIn \in ScenarioPayloads
    /\ fnOut = None

\* _collect_station: the fetch, the provider answering with the payload fnIn.
ScenarioFetch ==
    /\ cpc = "fetch"
    /\ FetchStep(<<"ok", fnIn>>)
    /\ fnOut' = fetch_latest_observation("ok", fnIn, Stations[idx])
    /\ UNCHANGED <<store, cycle_count, stopReport, stoppedInSleep, completed, backfillVars, db_up, fnIn>>

NextScenario ==
    \/ ScenarioFetch
    \/ CollectValidate
    \/ CollectPersist
    \/ RoundSummary

SpecScenario == InitScenario /\ [][NextScenario]_vars

(***************************************************************************)
(* fetch_latest_observation applied to one answer of the provider.         *)
(***************************************************************************)
FetchResponses ==
    {<<"ok", p>> : p \in ScenarioPayloads \cup Payloads(Stations[1]) \cup {NoProperties}}
        \cup {<<status, NoProperties>> : status \in HttpOutcomes \ {"ok"}}

InitFetch ==
    /\ SystemIdle
    /\ fnIn \in FetchResponses
    /\ fnOut = None

\* fetch_latest_observation() of the fetcher of the first station, the
\* provider answering fnIn: whether it raised, and what it returned.
FetchCall ==
    /\ fnOut = None
    /\ fnOut' = Some([raised |-> fetch_raises(fnIn[1], fnIn[2]),
                      value |-> IF fetch_raises(fnIn[1], fnIn[2]) THEN None
                                ELSE fetch_latest_observation(fnIn[1], fnIn[2], Stations[1])])
    /\ UNCHANGED <<store, collectorVars, backfillVars, db_up, fnIn>>

NextFetch == FetchCall

SpecFetch == InitFetch /\ [][NextFetch]_vars

(***************************************************************************)
(* The collector alone, left to run: no stop signal arrives, the process   *)
(* keeps being scheduled, every request ends (timeout=10) and every sleep  *)
(* ends.                                                                   *)
(***************************************************************************)
NextLive ==
    \/ StartRound
    \/ CollectFetch
    \/ CollectRaise
    \/ CollectValidate
    \/ CollectPersist
    \/ RoundSummary
    \/ SleepDone

SpecLive == Init /\ [][NextLive]_vars /\ WF_vars(NextLive)

(***************************************************************************)
(* _parse_observation on a payload and on the same payload with one        *)
(* quantity missing (the field absent, or its value null).                 *)
(***************************************************************************)
Quantities ==
    {"temperature", "dewpoint", "relativeHumidity", "barometricPressure",
     "visibility", "windSpeed", "windDirection", "windGust"}

QuantityPayloads ==
    {[p EXCEPT !.relativeHumidity = Some(Some(H(85))), !.windGust = Some(Some(H(7)))] :
        p \in ScenarioPayloads}

InitQuantity ==
    /\ SystemIdle
    /\ fnIn \in QuantityPayloads \X Quantities \X {None, Some(None)}
    /\ fnOut = None

\* fnIn = <<payload, quantity, field>>: the payload is normalized as it is
\* and with the quantity's field replaced.
QuantityParse ==
    /\ fnOut = None
    /\ LET without == [fnIn[1] EXCEPT ![fnIn[2]] = fnIn[3]]
       IN  fnOut' = Some([raised |-> ParseRaises(without),
                          present |-> ParseObservation(fnIn[1], Stations[1]),
                          missing |-> ParseObservation(without, Stations[1])])
    /\ UNCHANGED <<store, collectorVars, backfillVars, db_up, fnIn>>

NextQuantity == QuantityParse

SpecQuantity == InitQuantity /\ [][NextQuantity]_vars

(***************************************************************************)
(* Properties.                                                             *)
(***************************************************************************)
InRound == cpc \in {"fetch", "validate", "persist", "summary"}

\* A step of the collector that completes the persist step of a cycle.
PersistStep == cpc = "persist" /\ cpc' \notin {"persist", "stopped"}

\* A step of the backfill that completes the insert of a record.
RecordInsertStep == bpc = "insert" /\ bpc' # "insert"

\* The number of rows of the table with the given key.
RowCount(st, key) ==
    LET rows == RowsWithKey(st, key)
    IN  IF rows = {} THEN 0
        ELSE IF Cardinality(rows) = 1 THEN CopiesIn(CHOOSE r \in rows : TRUE, st)
        ELSE 2

\* C1: after any sequence of insert attempts of collector rounds and
\* backfills, the table holds at most one row for each
\* (station_id, observed_at) pair.
C1_UniqueStationTime ==
    \A r \in BagToSet(store) : RowCount(store, KeyOf(r)) = 1

\* C1 witness: the collector and a backfill have both run, rows are stored
\* and an insert attempt of the current round met a stored key.
C1_Witness ==
    /\ BagCardinality(store) >= 2
    /\ outcomes.duplicate >= 1
    /\ bidx > 1

\* C2: an insert of an observation whose (station_id, observed_at) is stored
\* leaves exactly one row for the pair and, unless the store itself fails,
\* raises the unique violation, which the caller takes as a duplicate: the
\* cycle is counted successful and the round goes on; the backfill counts a
\* duplicate and its record loop goes on.
C2_InsertIdempotent ==
    [][/\ (PersistStep /\ UniqueConflict(store, Val(observation))
             /\ outcomes'.persist_error = outcomes.persist_error)
          => /\ store' = store
             /\ RowCount(store', KeyOf(Val(observation))) = 1
             /\ outcomes'.duplicate = outcomes.duplicate + 1
             /\ stats'.successful = stats.successful + 1
             /\ stats'.failed = stats.failed
             /\ cpc' \in {"fetch", "summary"}
       /\ (RecordInsertStep /\ UniqueConflict(store, Val(bobservation))
             /\ boutcomes'.persist_error = boutcomes.persist_error)
          => /\ store' = store
             /\ RowCount(store', KeyOf(Val(bobservation))) = 1
             /\ boutcomes'.duplicate = boutcomes.duplicate + 1
             /\ totals'.duplicates = totals.duplicates + 1
             /\ totals'.errors = totals.errors
             /\ bpc' \in {"record", "summary"}]_vars

\* C2 witness: a cycle of the round met a stored key, was counted successful
\* and the round went on to the next station.
C2_Witness ==
    /\ cpc = "fetch"
    /\ outcomes.duplicate >= 1
    /\ stats.successful >= 1
    /\ stats.failed = 0

\* C3: in a round the stations are processed in list order and none is
\* skipped whatever the cycles before it did (returned False, raised), the
\* round ends with every station processed, and failed counts every cycle
\* that raised or failed exactly once.
C3_FailureIsolation ==
    /\ InRound =>
         /\ processed = SubSeq(Stations, 1, Len(processed))
         /\ stats.failed = outcomes.raised + outcomes.no_observation
                             + outcomes.invalid + outcomes.persist_error
    /\ cpc = "summary" => processed = Stations

\* C3 witness: the cycle of the first station raised, it is the one failure
\* counted, and the second station has reached its persist step.
C3_Witness ==
    /\ cpc = "persist"
    /\ idx = 2
    /\ outcomes.raised = 1
    /\ stats.failed = 1

\* C4: every station processed in a round is counted in exactly one counter:
\* successful + duplicates + failed is the number of stations processed, and
\* the number of stations when the round ends.
C4_TalliesComplete ==
    /\ InRound => stats.successful + stats.duplicates + stats.failed = Len(processed)
    /\ cpc = "summary" =>
         stats.successful + stats.duplicates + stats.failed = Len(Stations)

\* C4 witness: a round ends in which one cycle raised and another met a
\* stored key.
C4_Witness ==
    /\ cpc = "summary"
    /\ outcomes.raised >= 1
    /\ outcomes.duplicate >= 1

\* C5: the duplicate count a round reports is the number of stations whose
\* persist step ended in the unique violation in that round.
C5_DuplicatesReported ==
    cpc = "summary" => stats.duplicates = outcomes.duplicate

\* C6: a persist step that ends in the unique violation makes the cycle
\* successful and never failed; a persist step that fails for another reason
\* makes the cycle failed.
C6_PersistOutcome ==
    [][PersistStep =>
         /\ outcomes'.duplicate = outcomes.duplicate + 1
              => /\ stats'.successful = stats.successful + 1
                 /\ stats'.failed = stats.failed
         /\ outcomes'.persist_error = outcomes.persist_error + 1
              => /\ stats'.failed = stats.failed + 1
                 /\ stats'.successful = stats.successful]_vars

\* C6 witness: in one round a persist step met a stored key and another
\* failed for another reason; one cycle is counted successful, one failed.
C6_Witness ==
    /\ outcomes.duplicate = 1
    /\ outcomes.persist_error = 1
    /\ stats.successful = 1
    /\ stats.failed = 1

\* C7: a fog alert is emitted in every cycle that ends in Success or in
\* Duplicate and whose observation has visibility_m < 1000, and in no cycle
\* that ends in Failed.
C7_FogAlert ==
    [][/\ PersistStep /\ stats'.successful = stats.successful + 1
            /\ Val(observation).visibility_m # None
            /\ Val(Val(observation).visibility_m) < H(FogVisibilityM)
          => fog_alert'
       /\ InRound /\ stats'.failed = stats.failed + 1 => ~fog_alert']_vars

\* C8: for every observation whose visibility_m is present and passes
\* validation, the fog check holds exactly when visibility_m < 1000.
C8_FogPredicate ==
    (/\ fnOut # None
     /\ Val(fnOut).op = "fog"
     /\ fnIn.visibility_m # None
     /\ Val(fnIn.visibility_m) >= 0)
    => (Val(fnOut).result <=> Val(fnIn.visibility_m) < H(1000))

\* Absent: None, or for a text the empty text.
Absent(x) == x = None \/ x = Some("")

OutOfRange(x, lo, hi) == x # None /\ (Val(x) < H(lo) \/ Val(x) > H(hi))

\* C9: validate_observation rejects exactly when observed_at or station_id
\* is absent, temperature_c is present and outside [-50, 50],
\* relative_humidity is present and outside [0, 100], or visibility_m is
\* present and negative; the bounds are accepted and absent optional fields
\* never cause rejection.
C9_ValidationRule ==
    (fnOut # None /\ Val(fnOut).op = "validate")
    => (~Val(fnOut).result
          <=> \/ fnIn.observed_at = None
              \/ Absent(fnIn.station_id)
              \/ OutOfRange(fnIn.temperature_c, -50, 50)
              \/ OutOfRange(fnIn.relative_humidity, 0, 100)
              \/ (fnIn.visibility_m # None /\ Val(fnIn.visibility_m) < 0))

\* C9 witness: an observation on the bounds (-50 C, 100 %, 0 m) is accepted.
C9_Witness ==
    /\ fnOut = Some([op |-> "validate", result |-> TRUE])
    /\ fnIn.temperature_c = Some(H(-50))
    /\ fnIn.relative_humidity = Some(H(100))
    /\ fnIn.visibility_m = Some(0)

\* The 45-degree bucket nearest to d whole degrees.
NearestBucket(d) ==
    CHOOSE k \in 0..(MaxDegrees \div 45 + 1) :
        \A j \in 0..(MaxDegrees \div 45 + 1) :
            (IF d >= 45 * k THEN d - 45 * k ELSE 45 * k - d)
                <= (IF d >= 45 * j THEN d - 45 * j ELSE 45 * j - d)

\* C10: for every provider wind direction in whole degrees 0..360 the
\* normalized wind_direction is the compass code of the nearest 45-degree
\* bucket mod 8; 0 -> N, 44 -> N, 46 -> NE, 180 -> S, 359 -> N, 360 -> N.
C10_WindBucketing ==
    fnOut # None =>
        /\ Val(fnOut) = Some(directions[(NearestBucket(fnIn) % 8) + 1])
        /\ fnIn \in {0, 44, 359, 360} => Val(fnOut) = Some("N")
        /\ fnIn = 46 => Val(fnOut) = Some("NE")
        /\ fnIn = 180 => Val(fnOut) = Some("S")

\* The fields of the normalized record that the scenario names.
ScenarioFields(obs) ==
    [temperature_c |-> obs.temperature_c,
     dewpoint_c |-> obs.dewpoint_c,
     dewpoint_spread_c |-> obs.dewpoint_spread_c,
     barometric_pressure |-> obs.barometric_pressure,
     wind_speed_kmh |-> obs.wind_speed_kmh,
     wind_direction |-> obs.wind_direction,
     visibility_m |-> obs.visibility_m]

\* C11: the payload with temperature 10.0, dewpoint 8.0, visibility 500,
\* barometricPressure 101325 Pa, windSpeed 5.0 m/s, windDirection 90 is
\* normalized to temperature_c 10.0, dewpoint_c 8.0, dewpoint_spread_c 2.0,
\* barometric_pressure 1013.25, wind_speed_kmh 18.0, wind_direction E,
\* visibility_m 500; validation accepts it; and the cycle that inserts it
\* emits a fog alert.
C11_EndToEnd ==
    [][fnIn = ScenarioPayload =>
         /\ cpc = "fetch" =>
              /\ cpc' = "validate"
              /\ observation' # None
              /\ ScenarioFields(Val(observation')) =
                   [temperature_c |-> Some(1000),
                    dewpoint_c |-> Some(800),
                    dewpoint_spread_c |-> Some(200),
                    barometric_pressure |-> Some(101325),
                    wind_speed_kmh |-> Some(1800),
                    wind_direction |-> Some("E"),
                    visibility_m |-> Some(50000)]
         /\ cpc = "validate" => cpc' = "persist"
         /\ (PersistStep /\ outcomes'.inserted = outcomes.inserted + 1) => fog_alert']_vars

\* C11 witness: the cycle of the scenario payload inserted its observation
\* and logged the fog alert.
C11_Witness ==
    /\ fnIn = ScenarioPayload
    /\ outcomes.inserted >= 1
    /\ fog_alert
    /\ BagCardinality(store) >= 1

\* The timestamp of a properties bag names an instant: the normalization of
\* the bag succeeds.
Normalizable(properties) ==
    properties.timestamp # None /\ Val(properties.timestamp) # None

\* C12: fetch_latest_observation never raises to its caller; on a transport
\* error, a timeout, a non-2xx status, malformed JSON or a normalization
\* failure it returns None, and it returns an observation only when the
\* request and the normalization succeeded.
C12_FetchNeverRaises ==
    fnOut # None =>
        /\ ~Val(fnOut).raised
        /\ fnIn[1] \in {"connection_error", "timeout", "http_error", "bad_json"}
             => Val(fnOut).value = None
        /\ ~Normalizable(fnIn[2]) => Val(fnOut).value = None
        /\ Val(fnOut).value # None <=> (fnIn[1] = "ok" /\ Normalizable(fnIn[2]))

\* C12 witness: the request succeeded, the normalization failed on the
\* timestamp, and the call returned None.
C12_Witness ==
    /\ fnOut # None
    /\ fnIn[1] = "ok"
    /\ fnIn[2].timestamp = Some(None)
    /\ Val(fnOut).value = None
    /\ ~Val(fnOut).raised

\* A backfill of a station has ended (returned to, or raised into,
\* backfill_all_stations).
BackfillEnded == bpc \in {"returned", "raised"}

\* C13: a failed historic range request is propagated to the caller of
\* backfill as an error and is not swallowed into a normal return.
C13_RequestFailureLoud ==
    (BackfillEnded /\ breturn = "request_failed") => bpc = "raised"

\* The records of the current backfill that have been processed.
RecordsProcessed ==
    boutcomes.inserted + boutcomes.duplicate + boutcomes.persist_error + boutcomes.dropped

\* C14: every record of the list the historic request returned is processed,
\* whatever happened to the records before it and wherever a record without
\* timestamp or properties stands in the list, and every record that failed
\* is counted in errors.
C14_RecordIsolation ==
    (BackfillEnded /\ breturn # "request_failed") =>
        /\ RecordsProcessed = totals.fetched
        /\ totals.errors = boutcomes.persist_error + boutcomes.dropped

\* C15: when a backfill finishes, fetched = inserted + duplicates + errors,
\* inserted is the number of rows it added to the store and duplicates the
\* number of its records whose (station_id, observed_at) was stored.
C15_BackfillTallies ==
    BackfillEnded =>
        /\ totals.fetched = totals.inserted + totals.duplicates + totals.errors
        /\ totals.inserted = boutcomes.written
        /\ totals.duplicates = boutcomes.duplicate

\* C16: a backfill whose historic request returns zero records returns
\* normally with fetched, inserted, duplicates and errors at zero and leaves
\* the store as it was.
C16_EmptyBackfill ==
    [][(breturn' = "no_data" /\ breturn # "no_data") =>
         /\ bpc' = "returned"
         /\ totals' = ZeroTotals
         /\ boutcomes' = ZeroRecords
         /\ store' = store]_vars

\* C16 witness: a backfill on an empty response has returned, the store
\* holding rows.
C16_Witness ==
    /\ bpc = "returned"
    /\ breturn = "no_data"
    /\ totals = ZeroTotals
    /\ BagCardinality(store) >= 1

\* C17: backfill_all_stations starts the backfill of every station of the
\* list, in list order, whether the backfills before it returned, failed or
\* raised.
C17_BackfillIsolation ==
    /\ battempted = SubSeq(Stations, 1, Len(battempted))
    /\ bpc \notin {"idle", "done"} => Len(battempted) = bidx
    /\ bpc = "done" => battempted = Stations

\* C17 witness: the backfill of an earlier station failed or raised, and the
\* records of the next station are being processed.
C17_Witness ==
    /\ bfailed
    /\ bidx = 2
    /\ bpc = "record"
    /\ battempted = SubSeq(Stations, 1, 2)

\* C18: a stop signal that arrives while a station's cycle is in progress
\* (its observation fetched, its outcome not yet tallied) does not stop the
\* collector before the cycle has its outcome.
C18_CycleNotCut ==
    [][(cpc \in {"validate", "persist"}) => (cpc' # "stopped")]_vars

\* C19: a stop signal that arrives during the sleep between rounds ends the
\* loop: run_continuous leaves the sleep for its handler and returns, no
\* round is started then or later, and the store is left as it was.
C19_StopInSleep ==
    [][/\ (cpc = "sleep" /\ stopReport' # stopReport) =>
            /\ cpc' = "stopped"
            /\ cycle_count' = cycle_count
            /\ stopReport' = Some(cycle_count)
            /\ store' = store
       /\ cpc = "stopped" =>
            /\ cpc' = "stopped"
            /\ cycle_count' = cycle_count]_vars

\* C19 witness: the collector stopped in the sleep after its first round.
C19_Witness ==
    /\ cpc = "stopped"
    /\ stoppedInSleep
    /\ stopReport = Some(1)

\* C20: with the store unreachable when the collector process starts, the
\* process exits and never enters the collection loop.
C20_StartupCheck ==
    ~db_up => (cpc = "loop" /\ cycle_count = 0)

\* The validation rule, as the claims state it.
MeetsValidationRule(obs) ==
    /\ obs.observed_at # None
    /\ ~Absent(obs.station_id)
    /\ ~OutOfRange(obs.temperature_c, -50, 50)
    /\ ~OutOfRange(obs.relative_humidity, 0, 100)
    /\ ~(obs.visibility_m # None /\ Val(obs.visibility_m) < 0)

\* A station cycle is in progress.
InCycle == cpc \in {"fetch", "validate", "persist"}

\* C21: a cycle goes Fetching -> Validating -> Persisting: validation runs
\* only on an observation the fetch returned, an insert is attempted only
\* after validation passed, and a cycle whose fetch returned no observation
\* or whose validation failed ends as Failed with the store unchanged.
C21_CycleOrder ==
    [][/\ (cpc # "validate" /\ cpc' = "validate") =>
            (cpc = "fetch" /\ observation' # None)
       /\ (cpc # "persist" /\ cpc' = "persist") =>
            /\ cpc = "validate"
            /\ observation' = observation
            /\ MeetsValidationRule(Val(observation))
       /\ (InRound /\ store' # store) => cpc = "persist"
       /\ (\/ outcomes'.no_observation = outcomes.no_observation + 1
           \/ outcomes'.invalid = outcomes.invalid + 1) =>
            /\ stats'.failed = stats.failed + 1
            /\ stats'.successful = stats.successful
            /\ store' = store]_vars

\* C21 witness: a round in which one cycle inserted its observation and
\* another ended Failed at the validation.
C21_Witness ==
    /\ cpc = "summary"
    /\ outcomes.inserted = 1
    /\ outcomes.invalid = 1
    /\ stats.failed = 1

\* C22: within a round each station is fetched once, in list order, whatever
\* its outcome: the cycle after a station's is the next station's or the
\* round ends; a station is attempted again only in the next round, which
\* starts from the top of the loop after the sleep.
C22_NoImmediateRetry ==
    [][/\ (InCycle /\ cpc' = "fetch") =>
            /\ idx' = idx + 1
            /\ processed' = Append(processed, Stations[idx])
       /\ (InCycle /\ cpc' \notin {"fetch", "validate", "persist", "stopped"}) =>
            /\ cpc' = "summary"
            /\ idx = Len(Stations)
            /\ processed' = Stations
       /\ (~InCycle /\ cpc' = "fetch") =>
            /\ cpc = "loop"
            /\ idx' = 1
            /\ cycle_count' = cycle_count + 1
       /\ (cpc # "loop" /\ cpc' = "loop") => cpc = "sleep"]_vars

\* C22 witness: in the second round the first station failed and the
\* second station is about to be fetched.
C22_Witness ==
    /\ cycle_count = 2
    /\ cpc = "fetch"
    /\ idx = 2
    /\ stats.failed = 1
    /\ processed = <<Stations[1]>>

\* C23: with no stop signal, every round that starts reaches its summary,
\* every round but the last the model runs is followed by the next, and no
\* failure takes the collector out of run_continuous.
C23_RoundsGoOn ==
    /\ [](cpc \in {"loop", "fetch", "validate", "persist", "summary", "sleep"})
    /\ \A n \in 1..MaxRounds :
         (cpc = "fetch" /\ cycle_count = n) ~> (cpc = "summary" /\ cycle_count = n)
    /\ \A n \in 1..(MaxRounds - 1) :
         (cpc = "summary" /\ cycle_count = n) ~> (cpc = "fetch" /\ cycle_count = n + 1)

\* C23 witness: the store never answers, every cycle of the first round
\* failed, and the second round has completed with every cycle failed.
C23_Witness ==
    /\ ~db_up
    /\ cycle_count = 2
    /\ cpc = "summary"
    /\ stats.failed = Len(Stations)

\* C24: no step of the collector, the backfill (with its statistics) or the
\* recent query removes or changes a stored row.
C24_AppendOnly ==
    [][\A r \in BagToSet(store) : CopiesIn(r, store') >= CopiesIn(r, store)]_vars

\* C24 witness: rows are stored, the backfill with its statistics is done
\* and the recent query has run.
C24_Witness ==
    /\ BagCardinality(store) >= 2
    /\ bpc = "done"
    /\ fnOut # None

\* C25: an insert that fails with a persistence error other than a
\* duplicate leaves the set of stored rows as it was before the attempt.
C25_NoPartialWrite ==
    [][/\ (PersistStep /\ outcomes'.persist_error = outcomes.persist_error + 1)
            => store' = store
       /\ (RecordInsertStep /\ boutcomes'.persist_error = boutcomes.persist_error + 1)
            => store' = store]_vars

\* C26: every stored row has observed_at and station_id, temperature_c
\* absent or in [-50, 50], relative_humidity absent or in [0, 100] and
\* visibility_m absent or non-negative.
C26_StoredRowsValid ==
    \A r \in BagToSet(store) : MeetsValidationRule(r)

\* C26 witness: a row with temperature and humidity on their bounds is
\* stored and a cycle of the round dropped an invalid observation.
C26_Witness ==
    /\ \E r \in BagToSet(store) :
         r.temperature_c = Some(H(50)) /\ r.relative_humidity = Some(H(100))
    /\ outcomes.invalid >= 1

\* C27: get_recent_observations(station_id, limit) returns rows of that
\* station only, at most limit, ordered by observed_at descending, the
\* limit newest when the station has more, and leaves the store unchanged.
C27_RecentRows ==
    [][(fnOut = None /\ fnOut' # None /\ ~Val(fnOut').raised) =>
         LET rows == Val(fnOut').rows
             limit == fnIn'[2]
             mine == {r \in BagToSet(store) : r.station_id = Some(fnIn'[1])}
         IN  /\ store' = store
             /\ Len(rows) <= limit
             /\ \A i \in 1..Len(rows) : rows[i] \in mine
             /\ \A i \in 1..(Len(rows) - 1) :
                  Val(rows[i].observed_at) > Val(rows[i + 1].observed_at)
             /\ Len(rows) = IF limit < Cardinality(mine) THEN limit ELSE Cardinality(mine)
             /\ \A r \in mine :
                  (\A i \in 1..Len(rows) : rows[i] # r) =>
                      \A i \in 1..Len(rows) :
                          Val(r.observed_at) < Val(rows[i].observed_at)]_vars

\* C27 witness: a station with two rows was queried with limit 1 and one
\* row came back.
C27_Witness ==
    /\ fnOut # None
    /\ ~Val(fnOut).raised
    /\ fnIn[2] = 1
    /\ Len(Val(fnOut).rows) = 1
    /\ Cardinality({r \in BagToSet(store) : r.station_id = Some(fnIn[1])}) = 2

\* The attribute a measured quantity is normalized to.
AttributeOf(q) ==
    CASE q = "temperature" -> "temperature_c"
      [] q = "dewpoint" -> "dewpoint_c"
      [] q = "relativeHumidity" -> "relative_humidity"
      [] q = "barometricPressure" -> "barometric_pressure"
      [] q = "visibility" -> "visibility_m"
      [] q = "windSpeed" -> "wind_speed_kmh"
      [] q = "windDirection" -> "wind_direction"
      [] q = "windGust" -> "wind_gust_kmh"

Attributes ==
    {"observed_at", "station_id", "temperature_c", "dewpoint_c", "dewpoint_spread_c",
     "relative_humidity", "barometric_pressure", "visibility_m", "wind_speed_kmh",
     "wind_direction", "wind_gust_kmh"}

\* The attributes derived from a quantity besides its own.
DerivedFrom(q) == IF q \in {"temperature", "dewpoint"} THEN {"dewpoint_spread_c"} ELSE {}

\* C28 as stated: a quantity whose field is absent or null yields no data for
\* that attribute only, normalization succeeds, and every other attribute is
\* the same as if the quantity had been present.
C28_QuantityOnly ==
    fnOut # None =>
        /\ ~Val(fnOut).raised
        /\ Val(fnOut).missing[AttributeOf(fnIn[2])] = None
        /\ \A a \in Attributes \ {AttributeOf(fnIn[2])} :
             Val(fnOut).missing[a] = Val(fnOut).present[a]

\* C28 amended: a quantity whose field is absent or null yields no data for
\* that attribute and for the attributes derived from it (dewpoint_spread_c,
\* from temperature and dewpoint), normalization succeeds, and every other
\* attribute is the same as if the quantity had been present.
C28_QuantityAndDerived ==
    fnOut # None =>
        /\ ~Val(fnOut).raised
        /\ \A a \in {AttributeOf(fnIn[2])} \cup DerivedFrom(fnIn[2]) :
             Val(fnOut).missing[a] = None
        /\ \A a \in Attributes \ ({AttributeOf(fnIn[2])} \cup DerivedFrom(fnIn[2])) :
             Val(fnOut).missing[a] = Val(fnOut).present[a]

\* C28 witness: the temperature field is absent from a payload that has a
\* dewpoint: temperature_c and the spread are no data, the dewpoint stays.
C28_Witness ==
    /\ fnOut # None
    /\ fnIn[2] = "temperature"
    /\ fnIn[3] = None
    /\ Val(fnOut).present.temperature_c # None
    /\ Val(fnOut).present.dewpoint_spread_c # None
    /\ Val(fnOut).missing.temperature_c = None
    /\ Val(fnOut).missing.dewpoint_spread_c = None
    /\ Val(fnOut).missing.dewpoint_c = Val(fnOut).present.dewpoint_c

\* C29: a payload whose timestamp is missing or unparseable is never
\* persisted and never becomes an observation; in the backfill its record
\* is counted in errors and the other records of the response are processed.
C29_TimestampRequired ==
    /\ \A r \in BagToSet(store) : r.observed_at # None
    /\ observation # None => Val(observation).observed_at # None
    /\ bobservation # None => Val(bobservation).observed_at # None
    /\ (BackfillEnded /\ breturn = "date_range_error") =>
         /\ totals.errors >= 1
         /\ RecordsProcessed = totals.fetched

\* C30: the number reported as "Total cycles completed" is the number of
\* rounds that ran to completion.
C30_CyclesCompleted ==
    stopReport # None => Val(stopReport) = completed

====
